---- MODULE Spec2Model ----
(***************************************************************************)
(* A model of brightfish: a Fish (BinocularFish or MonocularFish) senses   *)
(* the brightness of an Environment's stage through two wedge-shaped eyes, *)
(* adapts its set point, turns, moves, and advances the Environment.       *)
(*                                                                         *)
(* Numbers.  Brightness, set points, learning rates and probabilities are  *)
(* exact rationals <<n, d>> (d > 0, lowest terms): their floating-point    *)
(* rounding is not modelled.  Angles are floats on a grid of two spacings: *)
(* integers, 0.1*pi being Tenth of them, of which those of magnitude below *)
(* Tenth are all representable and the others only at multiples of Tenth   *)
(* (fl rounds to the nearest), as doubles near 2*pi are spaced wider than  *)
(* doubles near 0.  np.cos and np.sin are the table CosT, scaled by        *)
(* PosUnit; coordinates are integers in units of 1/PosUnit of a cell.      *)
(***************************************************************************)
EXTENDS Integers, Sequences, FiniteSets, TLC

VARIABLES
    fish,       \* id -> the Fish object's attributes (fish.py:118-128)
    env,        \* the Environment object shared by the fish (environment.py)
    last,       \* the most recent Fish.step(): what it started from and returned
    tick,       \* number of completed logical time ticks of the driver
    stepped,    \* the fish that have taken their step() of the current tick
    advanced,   \* environment.step() calls made during the current tick
    edge_in,    \* whether skimage's polygon() counts cells on the wedge's edge
    built,      \* the fish and the environment as constructed
    timesteps,  \* how many ticks the driver runs (run()'s timesteps)
    pc,         \* where run() is: "idle" (not called), "loop", "done"
    params,     \* run()'s params, one record per index
    returned    \* what the completed run() calls returned

vars == <<fish, env, last, tick, stepped, advanced, edge_in, built, timesteps,
          pc, params, returned>>

---------------------------------------------------------------------------
(* Bounds of the model.                                                    *)

MaxTicks == 2      \* ticks the driver runs
Rows == 3          \* shape[0]
Cols == 4          \* shape[1]
NumFish == 2       \* fish sharing one environment
MaxEnvCalls == 4   \* step() and reset() calls made on a bare environment

---------------------------------------------------------------------------
(* Exact rational arithmetic, standing for Python's float arithmetic.      *)

Abs(x) == IF x < 0 THEN -x ELSE x

RECURSIVE GCD(_, _)
GCD(a, b) == IF b = 0 THEN a ELSE GCD(b, a % b)

Rat(n, d) ==
    LET s == IF d < 0 THEN -1 ELSE 1
        g == GCD(Abs(n), Abs(d))
    IN  <<(s * n) \div g, (s * d) \div g>>

\* Sums, products and comparisons are reduced by the common factors first.
RAdd(x, y) ==
    LET g == GCD(x[2], y[2])
    IN  Rat(x[1] * (y[2] \div g) + y[1] * (x[2] \div g), (x[2] \div g) * y[2])
RNeg(x) == <<-x[1], x[2]>>
RSub(x, y) == RAdd(x, RNeg(y))
RMul(x, y) ==
    LET g1 == GCD(Abs(x[1]), y[2])
        g2 == GCD(Abs(y[1]), x[2])
    IN  Rat((x[1] \div g1) * (y[1] \div g2), (x[2] \div g2) * (y[2] \div g1))
RAbs(x) == <<Abs(x[1]), x[2]>>
RLt(x, y) ==
    LET g == GCD(x[2], y[2]) IN x[1] * (y[2] \div g) < y[1] * (x[2] \div g)
RLe(x, y) == ~RLt(y, x)
RZero == <<0, 1>>
ROne == <<1, 1>>

---------------------------------------------------------------------------
(* Geometry: utils.pol2cart and the wedge rasterised by Fish.left_eye and  *)
(* Fish.right_eye.                                                         *)

Tenth == 4         \* 0.1 * np.pi
TwoPi == 20 * Tenth
PosUnit == 100     \* one cell, and the scale of CosT
RadiusFactor == 1000

\* np.cos at k * 0.1 * pi, k = 0 .. 19, times PosUnit (index k + 1).
CosT == <<100, 95, 81, 59, 31, 0, -31, -59, -81, -95,
          -100, -95, -81, -59, -31, 0, 31, 59, 81, 95>>

cos(phi) == CosT[((phi \div Tenth) % 20) + 1]
sin(phi) == CosT[(((phi \div Tenth) + 15) % 20) + 1]

\* The multiple of q nearest to x.
RoundTo(x, q) == ((2 * x + q) \div (2 * q)) * q

\* The float nearest to the real x.
fl(x) == IF Abs(x) < Tenth THEN x ELSE RoundTo(x, Tenth)

\* C's fmod: the exact remainder, with the sign of the dividend.
fmod(a, n) == IF a >= 0 THEN a % n ELSE -((-a) % n)

\* Python's float a % n for n > 0: fmod, and a negative remainder has n
\* added to it, which is a float addition.
pymod(a, n) ==
    LET r == fmod(a, n)
    IN  IF r < 0 THEN fl(r + n) ELSE r

\* utils.pol2cart: r = rho*cos(phi) + origin[0], c = rho*sin(phi) + origin[1].
\* rho is in cells, origin and the result in 1/PosUnit of a cell.
pol2cart(rho, phi, origin) ==
    <<rho * cos(phi) + origin[1], rho * sin(phi) + origin[2]>>

Cross(u, v) == u[1] * v[2] - u[2] * v[1]

Max(a, b) == IF a >= b THEN a ELSE b

shape == <<Rows, Cols>>

Cells == (0 .. Rows - 1) \X (0 .. Cols - 1)

\* skimage.draw.polygon on the triangle with vertices position,
\* pol2cart(radius, phi1, position) and pol2cart(radius, phi2, position),
\* clipped to shape: the cells whose centre lies in the triangle.  With
\* q = cell - position the three edge tests are the signs of
\*   Cross(d1, q), Cross(d2 - d1, q - radius*d1), -Cross(d2, q)
\* (each edge's cross product divided by the positive length radius).
polygon(position, phi1, phi2, radius) ==
    LET d1 == <<cos(phi1), sin(phi1)>>
        d2 == <<cos(phi2), sin(phi2)>>
        In(cell) ==
            LET q == <<cell[1] * PosUnit - position[1],
                       cell[2] * PosUnit - position[2]>>
                s1 == Cross(d1, q)
                s2 == Cross(<<d2[1] - d1[1], d2[2] - d1[2]>>,
                            <<q[1] - radius * d1[1], q[2] - radius * d1[2]>>)
                s3 == -Cross(d2, q)
            IN  IF edge_in
                THEN \/ (s1 >= 0 /\ s2 >= 0 /\ s3 >= 0)
                     \/ (s1 <= 0 /\ s2 <= 0 /\ s3 <= 0)
                ELSE \/ (s1 > 0 /\ s2 > 0 /\ s3 > 0)
                     \/ (s1 < 0 /\ s2 < 0 /\ s3 < 0)
    IN  {cell \in Cells : In(cell)}

left_eye(f) ==
    polygon(f.position,
            pymod(fl(f.heading + Tenth), TwoPi),
            pymod(fl(f.heading + 9 * Tenth), TwoPi),
            Max(Rows, Cols) * RadiusFactor)

right_eye(f) ==
    polygon(f.position,
            pymod(fl(f.heading - Tenth), TwoPi),
            pymod(fl(f.heading - 9 * Tenth), TwoPi),
            Max(Rows, Cols) * RadiusFactor)

\* The sum of stage over cells, one term per distinct value of stage there.
RECURSIVE RSum(_, _, _)
RSum(stage, cells, values) ==
    IF values = {} THEN RZero
    ELSE LET v == CHOOSE x \in values : TRUE
         IN  RAdd(RMul(v, <<Cardinality({c \in cells : stage[c] = v}), 1>>),
                  RSum(stage, cells, values \ {v}))

\* ndarray.mean() over the cells of a field of view.
Mean(stage, cells) ==
    RMul(RSum(stage, cells, {stage[c] : c \in cells}), <<1, Cardinality(cells)>>)

\* brightness_left/right falling back on the whole stage when the eye sees
\* no cell.
brightness_whole_stage(stage, fov) ==
    IF fov # {} THEN Mean(stage, fov) ELSE Mean(stage, Cells)

brightness(stage, fov) == IF fov # {} THEN Mean(stage, fov) ELSE RZero

brightness_left(f, e) == brightness(e.stage, left_eye(f))

brightness_right(f, e) == brightness(e.stage, right_eye(f))

\* What the two eyes of f report in e.  step() reads both, and turn() reads
\* them again with heading, position and stage untouched in between.
sense(f, e) == [left |-> brightness_left(f, e), right |-> brightness_right(f, e)]

---------------------------------------------------------------------------
(* Random draws.  np.random is the process-wide generator: a draw is a     *)
(* choice among the values the distribution can produce.                   *)

Deviates == {-11, 1}

\* np.random.normal(mu, sigma): mu plus a multiple of sigma.
normal(dist) == {dist.mu + k * dist.sigma : k \in Deviates}

\* The normal distribution has every float in its support: the negative
\* float nearest to zero is a sample too.
Tiny == -1

\* np.random.binomial(1, p): 0 or 1; only 0 when p = 0, only 1 when p = 1,
\* and no value (ValueError) when p is outside [0, 1].
binomial(p) ==
    IF RLt(p, RZero) \/ RLt(ROne, p) THEN {}
    ELSE IF p = RZero THEN {0}
    ELSE IF p = ROne THEN {1}
    ELSE {0, 1}

\* The cube of utils.nonlinearity(x) = clip(|x|^(1/3), 0, 1).  The cube root
\* of a rational is not a rational: the model keeps the cube, which lies in
\* {0}, (0, 1), {1} exactly when the value does.
nonlinearity(x) == IF RLt(ROne, RAbs(x)) THEN ROne ELSE RAbs(x)

---------------------------------------------------------------------------
(* Environment: PartitionedHalves.                                         *)

midpoint == <<Rows \div 2, Cols \div 2>>

full(value) == [cell \in Cells |-> value]

\* PartitionedHalves.reset (also the end of __init__).
reset(e) == [e EXCEPT !.time_step = 0, !.stage = full(e.initial_value)]

partition(e) ==
    [e EXCEPT !.stage =
        [cell \in Cells |->
            IF e.initial_half = "left"
            THEN (IF cell[2] < midpoint[2] + 1 THEN ROne ELSE RZero)
            ELSE (IF cell[2] >= midpoint[2] THEN ROne ELSE RZero)]]

switch_halves(e) ==
    [e EXCEPT !.stage = [cell \in Cells |-> e.stage[<<cell[1], Cols - 1 - cell[2]>>]]]

\* PartitionedHalves.step.
env_step(e) ==
    LET e1 == [e EXCEPT !.time_step = e.time_step + 1]
        e2 == IF e1.time_step = e1.burnin_time /\ ~e1.static
              THEN partition(e1) ELSE e1
        e3 == IF e2.time_step % e2.switch_time = 0 /\ ~e2.static
              THEN switch_halves(e2) ELSE e2
    IN  e3

PartitionedHalves(burnin_time, switch_time, initial_value, initial_half, static) ==
    reset([cls |-> "PartitionedHalves",
           burnin_time |-> burnin_time,
           switch_time |-> switch_time,
           initial_value |-> initial_value,
           initial_half |-> initial_half,
           static |-> static,
           time_step |-> 0,
           stage |-> full(RZero)])

---------------------------------------------------------------------------
(* Environment: Spotlight and SinusoidalGradient.  Each object carries its *)
(* own shape (a Spotlight's arena is square); an attribute the class never *)
(* sets is a field the record does not have.                               *)

cells(sh) == (0 .. sh[1] - 1) \X (0 .. sh[2] - 1)

Min(a, c) == IF a <= c THEN a ELSE c

\* skimage.draw.circle(r, c, radius, shape): the cells of shape strictly
\* within radius of (r, c).
circle(centre, radius, sh) ==
    {cell \in cells(sh) :
        (cell[1] - centre[1]) * (cell[1] - centre[1])
        + (cell[2] - centre[2]) * (cell[2] - centre[2]) < radius * radius}

\* skimage.filters.gaussian: every cell becomes a weighted mean of the cells
\* around it, the weights positive and summing to 1, cells beyond the border
\* read as the nearest cell inside.  The model keeps the weights 1/4, 1/2,
\* 1/4 along each axis.
gaussian(stage, sh) ==
    LET at(r, c) == stage[<<Max(0, Min(sh[1] - 1, r)), Max(0, Min(sh[2] - 1, c))>>]
        along(r, c) ==
            RAdd(RMul(<<1, 2>>, at(r, c)),
                 RMul(<<1, 4>>, RAdd(at(r, c - 1), at(r, c + 1))))
    IN  [cell \in cells(sh) |->
            RAdd(RMul(<<1, 2>>, along(cell[1], cell[2])),
                 RMul(<<1, 4>>, RAdd(along(cell[1] - 1, cell[2]),
                                     along(cell[1] + 1, cell[2]))))]

\* Spotlight.reset (also the end of __init__).
spotlight_reset(e) ==
    [e EXCEPT !.time_step = 0,
              !.stage = [cell \in cells(e.shape) |-> e.initial_value]]

\* place_spot without the fill: the spot is added onto the stage as it is.
place_spot_additive(e) ==
    [e EXCEPT !.stage =
        [cell \in cells(e.shape) |->
            IF cell \in circle(e.spot_coordinate, e.spot_radius, e.shape)
            THEN RAdd(e.stage[cell], e.spot_value) ELSE e.stage[cell]]]

\* Spotlight.place_spot.
place_spot(e) ==
    LET spot == circle(e.spot_coordinate, e.spot_radius, e.shape)
        filled == [cell \in cells(e.shape) |->
                      IF cell \in spot THEN e.spot_value ELSE RZero]
    IN  [e EXCEPT !.stage = gaussian(filled, e.shape)]

\* Spotlight.step.
spotlight_step(e) ==
    LET e1 == [e EXCEPT !.time_step = e.time_step + 1]
    IN  IF e1.time_step = e1.burnin_time THEN place_spot(e1) ELSE e1

\* Spotlight.__init__ (the aperture, which nothing reads, is left out).
Spotlight(sh, burnin_time, spot_coordinate, initial_value, spot_value, spot_radius) ==
    spotlight_reset([cls |-> "Spotlight",
                     shape |-> sh,
                     burnin_time |-> burnin_time,
                     spot_coordinate |-> spot_coordinate,
                     initial_value |-> initial_value,
                     spot_value |-> spot_value,
                     spot_radius |-> spot_radius,
                     time_step |-> 0,
                     stage |-> <<>>])

\* np.linspace(start, stop, num)[j].
linspace(start, stop, num, j) ==
    IF num = 1 THEN start ELSE start + (j * (stop - start)) \div (num - 1)

\* 0.5 * (1 + np.sin(np.linspace(start, stop, num=shape[1]) + phase)),
\* repeated over the rows.
sine_stage(e, phase) ==
    [cell \in cells(e.shape) |->
        Rat(PosUnit + sin(linspace(e.start, e.stop, e.shape[2], cell[2]) + phase),
            2 * PosUnit)]

\* SinusoidalGradient.step.
sinusoidal_step(e) ==
    IF ~e.static
    THEN LET phase == pymod(fl(e.phase + e.dt), TwoPi)
         IN  [e EXCEPT !.phase = phase, !.stage = sine_stage(e, phase)]
    ELSE e

\* SinusoidalGradient.__init__: the class sets no time_step and defines no
\* reset().
SinusoidalGradient(sh, dt, static) ==
    LET e == [cls |-> "SinusoidalGradient",
              shape |-> sh,
              start |-> 0,
              stop |-> TwoPi,
              phase |-> 15 * Tenth,
              dt |-> dt,
              static |-> static,
              stage |-> <<>>]
    IN  [e EXCEPT !.stage = sine_stage(e, e.phase)]

\* The shape given to Environment.__init__.
env_shape(e) == IF e.cls = "PartitionedHalves" THEN shape ELSE e.shape

\* environment.step(), by the class of the object.
Environment_step(e) ==
    CASE e.cls = "PartitionedHalves" -> env_step(e)
      [] e.cls = "Spotlight" -> spotlight_step(e)
      [] e.cls = "SinusoidalGradient" -> sinusoidal_step(e)

\* The classes that define reset().
has_reset(e) == e.cls \in {"PartitionedHalves", "Spotlight"}

\* environment.reset(), where the class defines it.
Environment_reset(e) ==
    CASE e.cls = "PartitionedHalves" -> reset(e)
      [] e.cls = "Spotlight" -> spotlight_reset(e)

---------------------------------------------------------------------------
(* Fish.                                                                   *)

\* Fish.__init__: the attributes, as given.
Fish(cls, heading, position, static, set_point, max_diff, learning_rate, p_move) ==
    [cls |-> cls,
     heading |-> heading,
     position |-> position,
     static |-> static,
     set_point |-> set_point,
     max_diff |-> max_diff,
     learning_rate |-> learning_rate,
     p_move |-> p_move,
     move_dist |-> [mu |-> 1, sigma |-> 1],
     no_turn_dist |-> [mu |-> 0, sigma |-> 2 * Tenth],
     left_turn_dist |-> [mu |-> 2 * Tenth, sigma |-> 2 * Tenth],
     right_turn_dist |-> [mu |-> -2 * Tenth, sigma |-> 2 * Tenth]]

\* The set point each eye is compared with: the one set point of a
\* BinocularFish, set_point[0] and set_point[1] of a MonocularFish.
set_point_left(f) == IF f.cls = "MonocularFish" THEN f.set_point[1] ELSE f.set_point
set_point_right(f) == IF f.cls = "MonocularFish" THEN f.set_point[2] ELSE f.set_point

diff_left(f, s) == RAbs(RSub(s.left, set_point_left(f)))
diff_right(f, s) == RAbs(RSub(s.right, set_point_right(f)))

\* turn() sending a tie of the two differences to the right.
turn_dist_tie_right(f, s) ==
    IF RLe(RZero, RSub(diff_left(f, s), diff_right(f, s)))
    THEN "right_turn_dist" ELSE "left_turn_dist"

\* turn(): the distribution the committed turn sample is drawn from.
turn_dist(f, s) ==
    IF RLt(RZero, RSub(diff_left(f, s), diff_right(f, s)))
    THEN "right_turn_dist" ELSE "left_turn_dist"

\* turn(): the cube of max_diff * nonlinearity(diff_diff), the probability
\* handed to np.random.binomial.
turn_probability(f, s) ==
    RMul(RMul(f.max_diff, RMul(f.max_diff, f.max_diff)),
         nonlinearity(RSub(diff_left(f, s), diff_right(f, s))))

\* The random draws of one move() (turn() included), in the order drawn; the
\* move distance is drawn only when moving.
draws(f, s) ==
    UNION {
        {[no_turn_rad |-> a, turn_rad |-> b, turning |-> t, moving |-> m, distance |-> d] :
            a \in normal(f.no_turn_dist) \cup {Tiny},
            b \in normal(f[turn_dist(f, s)]),
            t \in binomial(turn_probability(f, s)),
            d \in IF m = 1 THEN normal(f.move_dist) ELSE {0}} :
        m \in binomial(f.p_move)}

\* BinocularFish.turn and MonocularFish.turn; s is what the eyes report.
turn(f, s, dr) ==
    LET theta == IF dr.turning = 1 THEN dr.turn_rad ELSE dr.no_turn_rad
    IN  [fish |-> IF ~f.static
                  THEN [f EXCEPT !.heading = pymod(fl(f.heading + theta), TwoPi)]
                  ELSE f,
         theta |-> theta,
         turn_dist |-> turn_dist(f, s)]

\* move() with the upper bounds compared by <= instead of <.
move_inclusive(f, s, dr) ==
    LET t == turn(f, s, dr)
        g == t.fish
        move_distance == IF dr.moving = 1 THEN dr.distance ELSE 0
        rc == pol2cart(move_distance, g.heading, g.position)
        update == /\ ~g.static
                  /\ rc[1] >= 0
                  /\ rc[1] <= shape[1] * PosUnit
                  /\ rc[2] >= 0
                  /\ rc[2] <= shape[2] * PosUnit
    IN  [fish |-> IF dr.moving = 1 /\ update THEN [g EXCEPT !.position = rc] ELSE g,
         move_distance |-> move_distance,
         theta |-> t.theta,
         turn_dist |-> t.turn_dist,
         moving |-> dr.moving,
         candidate |-> rc]

\* move() that commits the candidate without looking at static.
move_ignoring_static(f, s, dr) ==
    LET t == turn(f, s, dr)
        g == t.fish
        move_distance == IF dr.moving = 1 THEN dr.distance ELSE 0
        rc == pol2cart(move_distance, g.heading, g.position)
        update == /\ rc[1] >= 0
                  /\ rc[1] < shape[1] * PosUnit
                  /\ rc[2] >= 0
                  /\ rc[2] < shape[2] * PosUnit
    IN  [fish |-> IF dr.moving = 1 /\ update THEN [g EXCEPT !.position = rc] ELSE g,
         move_distance |-> move_distance,
         theta |-> t.theta,
         turn_dist |-> t.turn_dist,
         moving |-> dr.moving,
         candidate |-> rc]

\* Fish.move.
move(f, s, dr) ==
    LET t == turn(f, s, dr)
        g == t.fish
        move_distance == IF dr.moving = 1 THEN dr.distance ELSE 0
        rc == pol2cart(move_distance, g.heading, g.position)
        update == /\ ~g.static
                  /\ rc[1] >= 0
                  /\ rc[1] < shape[1] * PosUnit
                  /\ rc[2] >= 0
                  /\ rc[2] < shape[2] * PosUnit
    IN  [fish |-> IF dr.moving = 1 /\ update THEN [g EXCEPT !.position = rc] ELSE g,
         move_distance |-> move_distance,
         theta |-> t.theta,
         turn_dist |-> t.turn_dist,
         moving |-> dr.moving,
         candidate |-> rc]

\* The set point update taking two learning-rate steps at once.
adapt_twice(f, s) ==
    IF f.cls = "MonocularFish"
    THEN [f EXCEPT !.set_point =
            <<RSub(f.set_point[1],
                   RMul(RAdd(f.learning_rate, f.learning_rate),
                        RSub(f.set_point[1], s.left))),
              RSub(f.set_point[2],
                   RMul(RAdd(f.learning_rate, f.learning_rate),
                        RSub(f.set_point[2], s.right)))>>]
    ELSE [f EXCEPT !.set_point =
            RSub(f.set_point,
                 RMul(RAdd(f.learning_rate, f.learning_rate),
                      RSub(f.set_point, RMul(RAdd(s.left, s.right), <<1, 2>>))))]

\* The set point update with the sign of the correction reversed.
adapt_away(f, s) ==
    IF f.cls = "MonocularFish"
    THEN [f EXCEPT !.set_point =
            <<RAdd(f.set_point[1], RMul(f.learning_rate, RSub(f.set_point[1], s.left))),
              RAdd(f.set_point[2], RMul(f.learning_rate, RSub(f.set_point[2], s.right)))>>]
    ELSE [f EXCEPT !.set_point =
            RAdd(f.set_point,
                 RMul(f.learning_rate,
                      RSub(f.set_point, RMul(RAdd(s.left, s.right), <<1, 2>>))))]

\* The set point update with each eye of a MonocularFish learning from the
\* other eye's brightness.
adapt_crossed(f, s) ==
    IF f.cls = "MonocularFish"
    THEN [f EXCEPT !.set_point =
            <<RSub(f.set_point[1], RMul(f.learning_rate, RSub(f.set_point[1], s.right))),
              RSub(f.set_point[2], RMul(f.learning_rate, RSub(f.set_point[2], s.left)))>>]
    ELSE [f EXCEPT !.set_point =
            RSub(f.set_point,
                 RMul(f.learning_rate,
                      RSub(f.set_point, RMul(RAdd(s.left, s.right), <<1, 2>>))))]

\* step(): the set point update from the sensed brightnesses.
adapt(f, s) ==
    IF f.cls = "MonocularFish"
    THEN [f EXCEPT !.set_point =
            <<RSub(f.set_point[1], RMul(f.learning_rate, RSub(f.set_point[1], s.left))),
              RSub(f.set_point[2], RMul(f.learning_rate, RSub(f.set_point[2], s.right)))>>]
    ELSE [f EXCEPT !.set_point =
            RSub(f.set_point,
                 RMul(f.learning_rate,
                      RSub(f.set_point, RMul(RAdd(s.left, s.right), <<1, 2>>))))]

\* step() reading the eyes after move() instead of before it.
step_sensing_late(f, e, s, dr) ==
    LET m == move(f, s, dr)
        g == adapt(m.fish, sense(m.fish, e))
    IN  [fish |-> g,
         env |-> env_step(e),
         moving |-> m.moving,
         candidate |-> m.candidate,
         turn_dist |-> m.turn_dist,
         ret |-> [heading |-> g.heading,
                  r |-> g.position[1],
                  c |-> g.position[2],
                  set_point |-> g.set_point,
                  diff_left |-> diff_left(f, s),
                  diff_right |-> diff_right(f, s),
                  move_distance |-> m.move_distance,
                  theta |-> m.theta]]

\* step() advancing the environment before and after move().
step_advancing_twice(f, e, s, dr) ==
    LET g == adapt(f, s)
        m == move(g, s, dr)
    IN  [fish |-> m.fish,
         env |-> env_step(env_step(e)),
         moving |-> m.moving,
         candidate |-> m.candidate,
         turn_dist |-> m.turn_dist,
         ret |-> [heading |-> m.fish.heading,
                  r |-> m.fish.position[1],
                  c |-> m.fish.position[2],
                  set_point |-> m.fish.set_point,
                  diff_left |-> diff_left(f, s),
                  diff_right |-> diff_right(f, s),
                  move_distance |-> m.move_distance,
                  theta |-> m.theta]]

\* BinocularFish.step and MonocularFish.step, for s = sense(f, e) and the
\* draws dr.
step(f, e, s, dr) ==
    LET g == adapt(f, s)
        m == move(g, s, dr)
    IN  [fish |-> m.fish,
         env |-> env_step(e),
         moving |-> m.moving,
         candidate |-> m.candidate,
         turn_dist |-> m.turn_dist,
         ret |-> [heading |-> m.fish.heading,
                  r |-> m.fish.position[1],
                  c |-> m.fish.position[2],
                  set_point |-> m.fish.set_point,
                  diff_left |-> diff_left(f, s),
                  diff_right |-> diff_right(f, s),
                  move_distance |-> m.move_distance,
                  theta |-> m.theta]]

\* The draws of one step(): move() runs on the fish with its set point adapted.
step_draws(f, s) == draws(adapt(f, s), s)

---------------------------------------------------------------------------
(* The state after construction, and the driver's calls.                   *)

Half == <<1, 2>>
Quarter == <<1, 4>>

Classes == {"BinocularFish", "MonocularFish"}
Headings == {0, 7 * Tenth}
Positions == {<<0, 0>>, <<1 * PosUnit, 2 * PosUnit>>}
LearningRates == {Quarter}
\* (static, p_move) as constructed.
Behaviours == {<<TRUE, RZero>>, <<TRUE, <<1, 5>>>>, <<FALSE, <<1, 5>>>>}

NoStep ==
    [who |-> 0, pre |-> 0, stage |-> 0, sensed |-> 0, moving |-> 0,
     candidate |-> <<0, 0>>, turn_dist |-> "", ret |-> 0]

\* Construction of one fish and its environment, nothing run yet.
Construct(fishes, e, n) ==
    /\ fish = fishes
    /\ env = e
    /\ built = [fish |-> fishes, env |-> e]
    /\ timesteps = n
    /\ last = NoStep
    /\ tick = 0
    /\ stepped = {}
    /\ advanced = 0
    /\ edge_in \in BOOLEAN
    /\ pc = "idle"
    /\ params = <<>>
    /\ returned = <<>>

Init ==
    \E cls \in Classes, heading \in Headings, position \in Positions,
       behaviour \in Behaviours, learning_rate \in LearningRates,
       env_static \in BOOLEAN :
        Construct([i \in {1} |->
                     Fish(cls, heading, position, behaviour[1],
                          IF cls = "MonocularFish" THEN <<Half, Half>> ELSE Half,
                          <<3, 4>>, learning_rate, behaviour[2])],
                  PartitionedHalves(1, 2, Quarter, "left", env_static),
                  MaxTicks)

\* One call fish[i].step(env); a tick ends when every fish has stepped.
StepCall(i) ==
    /\ i \notin stepped
    /\ \E s \in {sense(fish[i], env)} :
       \E o \in {step(fish[i], env, s, dr) : dr \in step_draws(fish[i], s)} :
        LET done == stepped \cup {i} = DOMAIN fish
        IN  /\ fish' = [fish EXCEPT ![i] = o.fish]
            /\ env' = o.env
            /\ last' = [who |-> i, pre |-> fish[i], stage |-> env.stage, sensed |-> s,
                        moving |-> o.moving, candidate |-> o.candidate,
                        turn_dist |-> o.turn_dist, ret |-> o.ret]
            /\ stepped' = IF done THEN {} ELSE stepped \cup {i}
            /\ tick' = IF done THEN tick + 1 ELSE tick
            /\ advanced' = (IF stepped = {} THEN 0 ELSE advanced)
                           + (o.env.time_step - env.time_step)
    /\ UNCHANGED <<edge_in, built, timesteps>>

\* The driver calls fish[i].step(env).
Step(i) ==
    /\ pc = "idle"
    /\ tick < timesteps
    /\ StepCall(i)
    /\ UNCHANGED <<pc, params, returned>>

Next == \E i \in DOMAIN fish : Step(i)

Spec == Init /\ [][Next]_vars

---------------------------------------------------------------------------
(* run(environment, timesteps) of fish 1: params starts with the fish as   *)
(* it is, each pass of the loop appends what step() returned.              *)

\* for i in range(timesteps), one pass more.
in_range_inclusive(i, n) == i <= n

\* for i in range(timesteps): whether the loop has a pass left after i passes.
in_range(i, n) == i < n

\* run(): params before the loop, the record at index 0.
run_params(f) ==
    [heading |-> f.heading,
     r |-> f.position[1],
     c |-> f.position[2],
     set_point |-> f.set_point,
     diff_left |-> RZero,
     diff_right |-> RZero,
     move_distance |-> 0,
     theta |-> 0]

RunStart ==
    /\ pc = "idle"
    /\ params' = <<run_params(fish[1])>>
    /\ pc' = "loop"
    /\ UNCHANGED <<fish, env, last, tick, stepped, advanced, edge_in, built,
                   timesteps, returned>>

RunIter ==
    /\ pc = "loop"
    /\ in_range(Len(params) - 1, timesteps)
    /\ StepCall(1)
    /\ params' = Append(params, last'.ret)
    /\ UNCHANGED <<pc, returned>>

RunReturn ==
    /\ pc = "loop"
    /\ ~in_range(Len(params) - 1, timesteps)
    /\ returned' = Append(returned, params)
    /\ pc' = "done"
    /\ UNCHANGED <<fish, env, last, tick, stepped, advanced, edge_in, built,
                   timesteps, params>>

\* The caller constructs the same fish and the same environment again, with
\* the parameters of the first construction.
Rebuild ==
    /\ pc = "done"
    /\ Len(returned) < 2
    /\ fish' = built.fish
    /\ env' = built.env
    /\ last' = NoStep
    /\ tick' = 0
    /\ stepped' = {}
    /\ advanced' = 0
    /\ pc' = "idle"
    /\ params' = <<>>
    /\ UNCHANGED <<edge_in, built, timesteps, returned>>

InitRun ==
    \E cls \in Classes, heading \in Headings, behaviour \in Behaviours,
       n \in 0 .. MaxTicks :
        Construct([i \in {1} |->
                     Fish(cls, heading, <<1 * PosUnit, 2 * PosUnit>>, behaviour[1],
                          IF cls = "MonocularFish" THEN <<Half, Half>> ELSE Half,
                          <<3, 4>>, Quarter, behaviour[2])],
                  PartitionedHalves(1, 2, Quarter, "left", FALSE),
                  n)

NextRun == RunStart \/ RunIter \/ RunReturn

SpecRun == InitRun /\ [][NextRun]_vars

\* Two run() calls, each on a freshly constructed static fish that never
\* moves.
InitRerun ==
    \E cls \in Classes, n \in 1 .. MaxTicks :
        Construct([i \in {1} |->
                     Fish(cls, 0, <<1 * PosUnit, 2 * PosUnit>>, TRUE,
                          IF cls = "MonocularFish" THEN <<Half, Half>> ELSE Half,
                          <<3, 4>>, Quarter, RZero)],
                  PartitionedHalves(1, 2, Quarter, "left", FALSE),
                  n)

NextRerun == RunStart \/ RunIter \/ RunReturn \/ Rebuild

SpecRerun == InitRerun /\ [][NextRerun]_vars

---------------------------------------------------------------------------
(* A fish in a field held at one brightness: the environment is static,    *)
(* so its stage stays at initial_value.                                    *)

ConvLearningRates == {RZero, Half, ROne, <<3, 2>>}
ConvSetPoints == {RZero, Half}

InitConv ==
    \E cls \in Classes, static \in BOOLEAN, set_point \in ConvSetPoints,
       learning_rate \in ConvLearningRates :
        Construct([i \in {1} |->
                     Fish(cls, 0, <<1 * PosUnit, 2 * PosUnit>>, static,
                          IF cls = "MonocularFish" THEN <<set_point, set_point>>
                          ELSE set_point,
                          <<3, 4>>, learning_rate, RZero)],
                  PartitionedHalves(1, 2, Quarter, "left", TRUE),
                  MaxTicks)

\* A step() call completes a tick of the one fish.
Tick == pc = "idle" /\ tick < timesteps /\ tick' = tick + 1

\* The driver keeps calling step() until the horizon, and every call returns:
\* while ticks are left, a tick is eventually completed.
SpecConv == InitConv /\ [][Next]_vars /\ WF_tick(Tick)

---------------------------------------------------------------------------
(* Several fish in one environment: in every tick each fish takes one      *)
(* step(), in any order.                                                   *)

InitShared ==
    \E cls \in Classes, static \in BOOLEAN :
        Construct([i \in 1 .. NumFish |->
                     Fish(cls, 0, <<1 * PosUnit, 2 * PosUnit>>, static,
                          IF cls = "MonocularFish" THEN <<Half, Half>> ELSE Half,
                          <<3, 4>>, Quarter, RZero)],
                  PartitionedHalves(1, 2, Quarter, "left", FALSE),
                  MaxTicks)

SpecShared == InitShared /\ [][Next]_vars

---------------------------------------------------------------------------
(* Fish constructed with a max_diff on either side of 1.  A step() whose   *)
(* turn() hands np.random.binomial a probability outside [0, 1] raises     *)
(* ValueError, which ends the driver.                                      *)

MaxDiffs == {<<3, 4>>, <<2, 1>>}

InitDiff ==
    \E cls \in Classes, heading \in Headings, position \in Positions,
       max_diff \in MaxDiffs, initial_half \in {"left", "right"} :
        Construct([i \in {1} |->
                     Fish(cls, heading, position, FALSE,
                          IF cls = "MonocularFish" THEN <<Half, Half>> ELSE Half,
                          max_diff, Quarter, <<1, 5>>)],
                  PartitionedHalves(1, 2, Quarter, initial_half, FALSE),
                  MaxTicks)

\* fish[i].step(env) raising out of np.random.binomial.
StepRaises(i) ==
    /\ pc = "idle"
    /\ tick < timesteps
    /\ i \notin stepped
    /\ step_draws(fish[i], sense(fish[i], env)) = {}
    /\ pc' = "ValueError"
    /\ UNCHANGED <<fish, env, last, stepped, tick, advanced, edge_in, built,
                   timesteps, params, returned>>

NextDiff == \E i \in DOMAIN fish : Step(i) \/ StepRaises(i)

SpecDiff == InitDiff /\ [][NextDiff]_vars

---------------------------------------------------------------------------
(* MonocularFish constructed with set points at the ends and in the middle *)
(* of [0, 1] and learning rates inside, at the ends of and beyond [0, 1].  *)

UnitSetPoints == {<<RZero, ROne>>, <<ROne, Half>>, <<Half, Half>>}
UnitLearningRates == {RZero, Quarter, ROne, <<3, 2>>}

InitUnit ==
    \E heading \in Headings, position \in Positions,
       set_point \in UnitSetPoints, learning_rate \in UnitLearningRates :
        Construct([i \in {1} |->
                     Fish("MonocularFish", heading, position, FALSE, set_point,
                          <<3, 4>>, learning_rate, <<1, 5>>)],
                  PartitionedHalves(1, 2, ROne, "left", FALSE),
                  MaxTicks)

SpecUnit == InitUnit /\ [][Next]_vars

---------------------------------------------------------------------------
(* An environment on its own: a caller makes step() and reset() calls on   *)
(* it, in any order.  A call the class does not define raises              *)
(* AttributeError, which ends the caller.                                  *)

Environments ==
    {PartitionedHalves(1, 2, Quarter, initial_half, static) :
        initial_half \in {"left", "right"}, static \in BOOLEAN}
    \cup {Spotlight(<<Rows, Rows>>, burnin_time, spot_coordinate, Quarter,
                    spot_value, spot_radius) :
            burnin_time \in 0 .. 2, spot_coordinate \in {<<0, 0>>, <<1, 1>>},
            spot_value \in {Quarter, ROne}, spot_radius \in {1, 2}}
    \cup {SinusoidalGradient(shape, Tenth, static) : static \in BOOLEAN}

InitEnv == \E e \in Environments : Construct(<<>>, e, MaxEnvCalls)

EnvStep ==
    /\ pc = "idle"
    /\ tick < timesteps
    /\ env' = Environment_step(env)
    /\ last' = [who |-> 0, call |-> "step", pre |-> env]
    /\ tick' = tick + 1
    /\ UNCHANGED <<fish, stepped, advanced, edge_in, built, timesteps, pc,
                   params, returned>>

EnvReset ==
    /\ pc = "idle"
    /\ tick < timesteps
    /\ IF has_reset(env)
       THEN env' = Environment_reset(env) /\ pc' = pc
       ELSE env' = env /\ pc' = "AttributeError"
    /\ last' = [who |-> 0, call |-> "reset", pre |-> env]
    /\ tick' = tick + 1
    /\ UNCHANGED <<fish, stepped, advanced, edge_in, built, timesteps,
                   params, returned>>

NextEnv == EnvStep \/ EnvReset

SpecEnv == InitEnv /\ [][NextEnv]_vars

---------------------------------------------------------------------------
(* A PartitionedHalves on its own, over burn-in and switch intervals that  *)
(* do and do not divide one another.                                       *)

InitHalves ==
    \E burnin_time \in 1 .. 2, switch_time \in 1 .. 3,
       initial_half \in {"left", "right"}, static \in BOOLEAN :
        Construct(<<>>,
                  PartitionedHalves(burnin_time, switch_time, Quarter,
                                    initial_half, static),
                  MaxEnvCalls)

SpecHalves == InitHalves /\ [][NextEnv]_vars

---------------------------------------------------------------------------
(* Properties.                                                             *)

Stepped(i) == last.who = i

InField(position) ==
    /\ position[1] >= 0 /\ position[1] < shape[1] * PosUnit
    /\ position[2] >= 0 /\ position[2] < shape[2] * PosUnit

\* C1: after every step() of a non-static fish, whatever turn angles were
\* sampled, 0 <= heading < 2*pi.
C1_HeadingCanonical ==
    \A i \in DOMAIN fish :
        Stepped(i) /\ ~fish[i].static =>
            fish[i].heading >= 0 /\ fish[i].heading < TwoPi

\* C2: a fish constructed with static = True keeps the heading and position
\* it was constructed with through any number of step() calls, whatever was
\* sampled; of its attributes only set_point may differ.
C2_StaticInvariance ==
    \A i \in DOMAIN fish :
        built.fish[i].static =>
            /\ fish[i].heading = built.fish[i].heading
            /\ fish[i].position = built.fish[i].position
            /\ [fish[i] EXCEPT !.set_point = built.fish[i].set_point] = built.fish[i]

\* A static fish has taken all its steps, the last one with a nonzero turn
\* sample, a decision to move and a nonzero distance; its set point changed.
C2_Witness ==
    \E i \in DOMAIN fish :
        /\ Stepped(i) /\ fish[i].static
        /\ tick = timesteps /\ tick >= 2
        /\ last.ret.theta # 0
        /\ last.moving = 1 /\ last.ret.move_distance # 0
        /\ InField(last.candidate)
        /\ fish[i].set_point # built.fish[i].set_point

\* C3: when the fish decides to move and the candidate coordinate lies
\* outside [0, shape[0]) x [0, shape[1]), position is unchanged by that step;
\* and a fish that starts inside the field is inside it after every step.
C3_MoveRejection ==
    \A i \in DOMAIN fish :
        /\ Stepped(i) /\ last.moving = 1 /\ ~InField(last.candidate)
              => fish[i].position = last.pre.position
        /\ InField(built.fish[i].position) => InField(fish[i].position)

\* A non-static fish decided to move to a candidate outside the field and
\* stayed where an earlier, accepted move had put it.
C3_Witness ==
    \E i \in DOMAIN fish :
        /\ Stepped(i) /\ ~fish[i].static
        /\ last.moving = 1 /\ ~InField(last.candidate)
        /\ fish[i].position = last.pre.position
        /\ fish[i].position # built.fish[i].position

\* The transition is a call fish[i].step(env).
StepTaken(i) == last'.who = i /\ <<tick, stepped>>' # <<tick, stepped>>

\* C4: brightness_left and brightness_right return 0.0 whenever the eye's
\* set of visible cells is empty, and otherwise the mean of stage over
\* exactly the visible cells.
C4_BrightnessOfWedge ==
    \A i \in DOMAIN fish :
        Stepped(i) =>
            /\ last.sensed.left =
                  IF left_eye(last.pre) = {} THEN RZero
                  ELSE Mean(last.stage, left_eye(last.pre))
            /\ last.sensed.right =
                  IF right_eye(last.pre) = {} THEN RZero
                  ELSE Mean(last.stage, right_eye(last.pre))

\* A fish at the corner (0, 0) stepped with its left eye seeing no cell and
\* its right eye seeing a nonempty part of a stage that is not uniform.
C4_Witness ==
    \E i \in DOMAIN fish :
        /\ Stepped(i)
        /\ last.pre.position = <<0, 0>>
        /\ left_eye(last.pre) = {}
        /\ last.sensed.left = RZero
        /\ right_eye(last.pre) # {}
        /\ last.sensed.right \notin {RZero, ROne, Quarter}

\* C5: every BinocularFish.step(), static or not, moving or not, replaces
\* set_point by set_point - learning_rate * (set_point - (brightness_left +
\* brightness_right) / 2), the brightnesses being those sensed before the
\* step's turn and move; and with both eyes sensing 0.25, set_point 0.5,
\* static = True and p_move = 0, a step leaves heading and position unchanged
\* and lowers set_point by learning_rate * 0.25.
C5_SetPointUpdate ==
    \A i \in DOMAIN fish :
        Stepped(i) /\ fish[i].cls = "BinocularFish" =>
            LET f == last.pre
                b == last.sensed
            IN  /\ fish[i].set_point =
                      RSub(f.set_point,
                           RMul(f.learning_rate,
                                RSub(f.set_point, RMul(RAdd(b.left, b.right), Half))))
                /\ (/\ b.left = Quarter /\ b.right = Quarter
                    /\ f.set_point = Half /\ f.static /\ f.p_move = RZero)
                      => /\ fish[i].heading = f.heading
                         /\ fish[i].position = f.position
                         /\ fish[i].set_point =
                               RSub(Half, RMul(f.learning_rate, Quarter))

\* The scenario: a static BinocularFish with p_move = 0 and set_point 0.5
\* took one step in the uniform 0.25 field.
C5_Witness ==
    \E i \in DOMAIN fish :
        /\ Stepped(i) /\ fish[i].cls = "BinocularFish"
        /\ last.sensed = [left |-> Quarter, right |-> Quarter]
        /\ last.pre.set_point = Half /\ last.pre.static /\ last.pre.p_move = RZero
        /\ last.ret.theta # 0
        /\ RLt(fish[i].set_point, Half)

\* The brightness of the field held constant.
b == Quarter

Tolerance == <<1, 16>>

LearnsInUnit(f) == RLt(RZero, f.learning_rate) /\ RLe(f.learning_rate, ROne)

\* A step in which both eyes sensed v moved the set point sp to sp2 without
\* increasing its distance to v and without crossing v.
Approaches(sp, sp2, v) ==
    /\ RLe(RAbs(RSub(sp2, v)), RAbs(RSub(sp, v)))
    /\ RLe(v, sp) => RLe(v, sp2)
    /\ RLe(sp, v) => RLe(sp2, v)

Close(f) ==
    /\ RLe(RAbs(RSub(set_point_left(f), b)), Tolerance)
    /\ RLe(RAbs(RSub(set_point_right(f), b)), Tolerance)

\* Some eye of the one fish sensed a brightness other than b on its latest
\* step.  "Always not SensedOther implies eventually Q" is written
\* <>(SensedOther \/ Q).
SensedOther == Stepped(1) /\ last.sensed # [left |-> b, right |-> b]

SensedOtherOrClose == SensedOther \/ Close(fish[1])

LearnsOutsideUnitOrSensedOtherOrClose ==
    LearnsInUnit(fish[1]) => SensedOtherOrClose

\* C6, as stated: if both eyes sense the same constant brightness b on
\* every step, then over successive steps |set_point - b| never increases,
\* set_point never crosses to the other side of b, and set_point eventually
\* comes within the tolerance of b.
C6_Original ==
    /\ [][StepTaken(1) /\ last'.sensed = [left |-> b, right |-> b] =>
            /\ Approaches(set_point_left(fish[1]), set_point_left(fish'[1]), b)
            /\ Approaches(set_point_right(fish[1]), set_point_right(fish'[1]), b)]_vars
    /\ <>SensedOtherOrClose

\* C6, amended: the same for a fish with 0 < learning_rate <= 1 (set points
\* being exact, that is, up to floating-point rounding).
C6_Convergence ==
    /\ [][/\ StepTaken(1) /\ last'.sensed = [left |-> b, right |-> b]
           /\ LearnsInUnit(fish[1])
           =>  /\ Approaches(set_point_left(fish[1]), set_point_left(fish'[1]), b)
               /\ Approaches(set_point_right(fish[1]), set_point_right(fish'[1]), b)]_vars
    /\ <>LearnsOutsideUnitOrSensedOtherOrClose

\* A fish with learning_rate 1/2 whose eyes sensed b on its steps started
\* 1/4 away from b and is now within the tolerance, without having reached b.
C6_Witness ==
    \E i \in DOMAIN fish :
        /\ Stepped(i) /\ tick >= 2
        /\ fish[i].learning_rate = Half
        /\ last.sensed = [left |-> b, right |-> b]
        /\ ~Close(built.fish[i])
        /\ ~Close(last.pre)
        /\ Close(fish[i])
        /\ set_point_left(fish[i]) # b

\* C7: two run() invocations with identical Environment and identical Fish
\* construction parameters (the Fish takes no seed, so there is none to
\* differ) return identical per-step state sequences.
C7_Reproducible ==
    Len(returned) = 2 => returned[1] = returned[2]

\* C8: run(environment, n) calls step() exactly n times and returns a
\* series of length n + 1 whose index 0 is the fish before the first step
\* and whose index i (1 <= i <= n) is the record the i-th step returned.
C8_RunSeries ==
    /\ [](pc = "loop" =>
            /\ Len(params) = tick + 1
            /\ tick <= timesteps
            /\ params[1] = run_params(built.fish[1])
            /\ tick > 0 => params[tick + 1] = last.ret)
    /\ [](pc = "done" =>
            /\ tick = timesteps
            /\ env.time_step = timesteps
            /\ Len(returned) = 1
            /\ Len(returned[1]) = timesteps + 1
            /\ returned[1] = params)
    /\ [][pc = "loop" /\ pc' = "loop" =>
            /\ tick' = tick + 1
            /\ SubSeq(params', 1, Len(params)) = params]_vars

\* run(environment, 2) of a non-static fish has returned three records, the
\* two steps' records differing from the initial one and from each other.
C8_Witness ==
    /\ pc = "done" /\ timesteps = 2
    /\ ~fish[1].static
    /\ Len(returned[1]) = 3
    /\ returned[1][3] = last.ret
    /\ returned[1][2].heading # returned[1][1].heading
    /\ returned[1][3].r # returned[1][2].r
    /\ returned[1][3].theta # returned[1][2].theta

\* C9: each step() senses, adapts the set point, decides the turn, decides
\* the move and advances the environment, in that order and once each:
\* the eyes read the environment as it was before the step, the turn is
\* decided with the adapted set point, the move starts from the turned
\* heading, and the environment is left exactly one environment.step() on.
C9_StepPhases ==
    [][\A i \in DOMAIN fish :
        StepTaken(i) =>
            LET s == last'.sensed
                g == adapt(fish[i], s)
            IN  /\ s = sense(fish[i], env)
                /\ last'.pre = fish[i] /\ last'.stage = env.stage
                /\ fish'[i].set_point = g.set_point
                /\ last'.ret.diff_left = diff_left(fish[i], s)
                /\ last'.turn_dist = turn_dist(g, s)
                /\ ~fish[i].static =>
                      fish'[i].heading =
                          pymod(fl(fish[i].heading + last'.ret.theta), TwoPi)
                /\ last'.candidate =
                      pol2cart(last'.ret.move_distance, fish'[i].heading, fish[i].position)
                /\ env' = env_step(env)
                /\ env'.time_step = env.time_step + 1
                /\ \A j \in DOMAIN fish \ {i} : fish'[j] = fish[j]]_vars

\* A non-static fish took the step that partitions the stage: it sensed the
\* uniform stage, adapted, turned, moved along the new heading, and left the
\* environment one step on with a stage that is no longer uniform.
C9_Witness ==
    \E i \in DOMAIN fish :
        /\ Stepped(i) /\ ~fish[i].static
        /\ env.time_step = 1
        /\ env.stage # built.env.stage
        /\ last.sensed.left = Quarter
        /\ fish[i].set_point # last.pre.set_point
        /\ fish[i].heading # last.pre.heading
        /\ fish[i].position # last.pre.position

\* C10: when several fish share one environment and each takes one step()
\* per tick, in any order, environment.step() is invoked at most once per
\* tick: the environment's time advances by at most 1 per tick.
C10_OneAdvancePerTick ==
    /\ advanced <= 1
    /\ env.time_step <= tick + 1

\* The latest call on the bare environment was c.
EnvCalled(c) == "call" \in DOMAIN last /\ last.call = c

\* C11: for every Environment variant, reset() can be called after any
\* sequence of step() calls and restores time_step = 0 and the stage of the
\* state right after construction; a second reset() changes nothing.
C11_ResetRestores ==
    EnvCalled("reset") =>
        /\ pc = "idle"
        /\ env.time_step = 0
        /\ env.stage = built.env.stage
        /\ Environment_reset(env) = env

\* C12: for every concrete Environment variant, time_step is 0 after
\* construction, every step() call increases it by exactly 1, and it never
\* decreases except through reset().
C12_TimeStepCounts ==
    /\ "time_step" \in DOMAIN env
    /\ tick = 0 => env.time_step = 0
    /\ EnvCalled("step") => env.time_step = last.pre.time_step + 1
    /\ EnvCalled("reset") => env.time_step = 0

\* C13: after construction and after any sequence of step() and reset()
\* calls, the stage has exactly the dimensions given by shape and every cell
\* value lies in [0, 1] (initial_value and spot_value being in [0, 1]).
C13_StageDomain ==
    /\ DOMAIN env.stage = cells(env_shape(env))
    /\ \A cell \in DOMAIN env.stage :
          RLe(RZero, env.stage[cell]) /\ RLe(env.stage[cell], ROne)

\* A Spotlight of spot_value 1 has painted its spot: the stage holds a value
\* strictly between 0 and 1 that is not initial_value, and a 0.
C13_Witness ==
    /\ env.cls = "Spotlight" /\ env.spot_value = ROne
    /\ EnvCalled("step") /\ env.time_step > env.burnin_time
    /\ \E cell \in DOMAIN env.stage :
          /\ RLt(RZero, env.stage[cell]) /\ RLt(env.stage[cell], ROne)
          /\ env.stage[cell] # env.initial_value
    /\ \E cell \in DOMAIN env.stage : env.stage[cell] = RZero

\* C20: for a Spotlight with any burnin_time >= 0, the stage is uniformly
\* initial_value at every time_step before burnin_time, the spot is painted
\* exactly once, when the burn-in period ends, and at every time_step >=
\* burnin_time the stage is the smoothed spot pattern, until reset().
C20_BurnIn ==
    env.cls = "Spotlight" =>
        /\ env.time_step < env.burnin_time =>
              env.stage = [cell \in cells(env.shape) |-> env.initial_value]
        /\ env.time_step >= env.burnin_time => env.stage = place_spot(env).stage
        /\ EnvCalled("step") /\ env.stage # last.pre.stage =>
              env.time_step = env.burnin_time

\* C14: pol2cart returns row = origin.row - rho * sin(phi) and column =
\* origin.col + rho * cos(phi): a fish heading 0 that moves a distance d > 0
\* keeps its row and increases its column by d, and heading pi/2 decreases
\* the row.  The candidate of move() is pol2cart of the drawn distance, the
\* heading after turn() and the position before the move.
C14_Pol2Cart ==
    \A i \in DOMAIN fish :
        Stepped(i) /\ last.moving = 1 =>
            /\ last.candidate =
                  <<last.pre.position[1]
                        - last.ret.move_distance * sin(last.ret.heading),
                    last.pre.position[2]
                        + last.ret.move_distance * cos(last.ret.heading)>>
            /\ last.ret.heading = 0 /\ last.ret.move_distance > 0 =>
                  /\ last.candidate[1] = last.pre.position[1]
                  /\ last.candidate[2] =
                        last.pre.position[2] + last.ret.move_distance * PosUnit

\* C15: in every turn() the probability handed to the Bernoulli draw is
\* max_diff * clip(|diff_left - diff_right|^(1/3), 0, 1) and lies in [0, 1]
\* for every reachable brightness and set point and every max_diff the
\* constructor accepts, so the draw never fails.  (turn_probability is the
\* cube of that probability, and is in [0, 1] exactly when it is.)
C15_DrawNeverFails ==
    /\ pc # "ValueError"
    /\ \A i \in DOMAIN fish :
          \E s \in {sense(fish[i], env)} :
          \E p \in {turn_probability(adapt(fish[i], s), s)} :
              RLe(RZero, p) /\ RLe(p, ROne)

\* C18: a fish constructed at an integer position stays at an integer
\* position after accepted moves, and the r and c a step records are
\* integers.
C18_IntegerPosition ==
    \A i \in DOMAIN fish :
        /\ fish[i].position[1] % PosUnit = 0
        /\ fish[i].position[2] % PosUnit = 0
        /\ Stepped(i) =>
              last.ret.r % PosUnit = 0 /\ last.ret.c % PosUnit = 0

ExpectedDist(g, s) ==
    IF RLt(diff_right(g, s), diff_left(g, s))
    THEN "right_turn_dist" ELSE "left_turn_dist"

\* C19: in turn() the committed turn sample comes from right_turn_dist when
\* diff_left > diff_right and from left_turn_dist otherwise, a tie included;
\* the theta returned is that sample or the no_turn sample, and it is
\* returned even when the fish is static and its heading is left alone.
C19_TurnDistribution ==
    \A i \in DOMAIN fish :
        Stepped(i) =>
            \E g \in {adapt(last.pre, last.sensed)} :
                /\ last.turn_dist = ExpectedDist(g, last.sensed)
                /\ last.ret.theta \in
                      normal(g[ExpectedDist(g, last.sensed)])
                          \cup normal(g.no_turn_dist) \cup {Tiny}
                /\ diff_left(g, last.sensed) = diff_right(g, last.sensed) =>
                      last.turn_dist = "left_turn_dist"
                /\ last.pre.static => fish[i].heading = last.pre.heading

\* A static fish whose left eye is further from its set point has stepped:
\* the sample of right_turn_dist was committed and returned, the heading
\* kept.
C19_Witness ==
    /\ Stepped(1)
    /\ last.pre.static
    /\ last.turn_dist = "right_turn_dist"
    /\ last.ret.theta \in normal(last.pre.right_turn_dist)
    /\ last.ret.theta \notin normal(last.pre.no_turn_dist) \cup {Tiny}
    /\ last.ret.theta # 0
    /\ fish[1].heading = last.pre.heading

\* A fish has stepped on a tie of the two differences.
C19_TieWitness ==
    /\ Stepped(1)
    /\ \E g \in {adapt(last.pre, last.sensed)} :
          diff_left(g, last.sensed) = diff_right(g, last.sensed)
    /\ last.turn_dist = "left_turn_dist"

InUnit(x) == RLe(RZero, x) /\ RLe(x, ROne)

C17_BeyondOne ==
    \E k \in {1, 2} : ~InUnit(fish[1].set_point[k])

\* The columns of a stage that are 1.0 in every row, and those that are 0.0.
BrightCols(stage) ==
    {c \in 0 .. Cols - 1 : \A r \in 0 .. Rows - 1 : stage[<<r, c>>] = ROne}
DarkCols(stage) ==
    {c \in 0 .. Cols - 1 : \A r \in 0 .. Rows - 1 : stage[<<r, c>>] = RZero}

\* C21: for a non-static PartitionedHalves with burnin_time >= 1 and
\* switch_time >= 1, right after the step() in which time_step reaches
\* burnin_time the half named by initial_half is bright (1.0) and the other
\* half dark (0.0), the two halves being the same width; thereafter the
\* bright and the dark half exchange every switch_time steps and the stage
\* is left alone in between, and two consecutive switches restore the stage
\* exactly.  With static = True the stage never changes.
C21_Halves ==
    /\ ~env.static /\ EnvCalled("step") /\ env.time_step = env.burnin_time =>
          /\ BrightCols(env.stage) \cup DarkCols(env.stage) = 0 .. Cols - 1
          /\ Cardinality(BrightCols(env.stage)) = Cardinality(DarkCols(env.stage))
          /\ \A bright \in BrightCols(env.stage), dark \in DarkCols(env.stage) :
                IF env.initial_half = "left" THEN bright < dark ELSE dark < bright
    /\ ~env.static /\ EnvCalled("step") /\ env.time_step > env.burnin_time =>
          IF env.time_step % env.switch_time = 0
          THEN /\ BrightCols(env.stage) = DarkCols(last.pre.stage)
               /\ DarkCols(env.stage) = BrightCols(last.pre.stage)
          ELSE env.stage = last.pre.stage
    /\ ~env.static =>
          switch_halves(switch_halves(env)).stage = env.stage
    /\ env.static => env.stage = built.env.stage

====
